---- MODULE Spec2Model ----
(***************************************************************************)
(* A model of package cpanic (src/cpanic.go): Recover, Forward, Go, and    *)
(* the *Panic error type, together with the part of the Go runtime they    *)
(* rest on: one defer per function, panic unwinding, the recover builtin.  *)
(*                                                                         *)
(* A unit is a goroutine.  Its call stack is a sequence of frames, one per *)
(* protected section.  A frame is a function of the shape                 *)
(*     func() (err error) { defer D; ...body... }                          *)
(* where D is cpanic.Recover(handler), cpanic.Forward(errPtr), nothing     *)
(* (kind "Bare"), or the frame is cpanic.Go itself, whose body is          *)
(* `return fn()`.                                                          *)
(***************************************************************************)
EXTENDS Integers, Sequences, FiniteSets

VARIABLES
    stack,      \* stack[u]: the frames of unit u, outermost first
    flight,     \* flight[u]: the panic in flight in unit u, or NoPanic
    status,     \* status[u]: "idle", "running", "done" or "crashed"
    result,     \* result[u]: what the outermost frame returned, or the payload that escaped
    last,       \* last[u]: the frame unit u left last, and how it left it
    records,    \* the *Panic values New has built, in construction order
    clock,      \* the latest reading of the wall clock
    panicnil,   \* the runtime's treatment of panic(nil) (GODEBUG panicnil=1: Go < 1.21)
    plan        \* plan[u]: how deep unit u nests its calls and what its functions defer

vars == <<stack, flight, status, result, last, records, clock, panicnil, plan>>

----------------------------------------------------------------------------
(* Bounds *)

MaxDepth == 2       \* nesting of protected sections in one unit
MaxTime == 1        \* the latest time the wall clock reaches

(* Program constants *)

TraceBuf == 65536   \* var trace [1 << 16]byte

----------------------------------------------------------------------------
(* Values: interface{} and error values.  Strings are sequences of           *)
(* characters.                                                             *)

Nil == [t |-> "nil"]
Str(s) == [t |-> "string", s |-> s]
Err(id, msg) == [t |-> "error", id |-> id, msg |-> msg]
Ref(id) == [t |-> "Panic", id |-> id]
PanicNilError == [t |-> "PanicNilError"]
NilDeref == [t |-> "runtime.Error"]    \* calling a nil func value

ErrTest == Err(1, <<"t", "e", "s", "t">>)
ErrX == Err(2, <<"x">>)
Errors == {ErrTest, ErrX}
Assigned == {ErrTest}     \* what the protected code assigns to err before it ends

Payloads == {Nil, Str(<<"x">>), ErrX}
HandlerPayload == Str(<<"h">>)

NoPanic == [t |-> "none"]
Panicking(v) == [t |-> "panic", value |-> v]

(* The operand of the panic in flight: panic(nil) keeps a nil operand under  *)
(* panicnil=1 and is replaced by a *runtime.PanicNilError otherwise.         *)
PanicArg(v, pn) == IF v = Nil /\ ~pn THEN PanicNilError ELSE v

(* A recover that would see the panic of any goroutine. *)
RecoverValueAny(fl) ==
    IF \E w \in DOMAIN flight : flight[w] # NoPanic
    THEN flight[CHOOSE w \in DOMAIN flight : flight[w] # NoPanic].value
    ELSE Nil

(* The recover builtin, called directly by a deferred function: the operand  *)
(* of the panic in flight (nil when there is none).  The panic stops either  *)
(* way, also when its operand is nil.                                        *)
RecoverValue(fl) == IF fl = NoPanic THEN Nil ELSE fl.value

----------------------------------------------------------------------------
(* Formatting *)

Min(a, b) == IF a < b THEN a ELSE b

PanicNilText == <<"p", "a", "n", "i", "c", " ", "c", "a", "l", "l", "e", "d", " ", "w", "i", "t", "h", " ", "n", "i", "l", " ", "a", "r", "g", "u", "m", "e", "n", "t", " ", "(", "o", "b", "s", "o", "l", "e", "t", "e", ")">>
NilDerefText == <<"r", "u", "n", "t", "i", "m", "e", " ", "e", "r", "r", "o", "r", ":", " ", "i", "n", "v", "a", "l", "i", "d", " ", "m", "e", "m", "o", "r", "y", " ", "a", "d", "d", "r", "e", "s", "s", " ", "o", "r", " ", "n", "i", "l", " ", "p", "o", "i", "n", "t", "e", "r", " ", "d", "e", "r", "e", "f", "e", "r", "e", "n", "c", "e">>

(* fmt's %v verb: an error prints as its Error() text, a string as itself.  *)
Fmt(v) == CASE v.t = "nil" -> <<"<", "n", "i", "l", ">">>
            [] v.t = "string" -> v.s
            [] v.t = "error" -> v.msg
            [] v.t = "PanicNilError" -> PanicNilText
            [] v.t = "runtime.Error" -> NilDerefText

(* func (p *Panic) Error() string *)
Error(p) == <<"p", "a", "n", "i", "c", ":", " ">> \o Fmt(p.Value)

(* String with one newline between the message and the trace. *)
StringOneNewline(p) == Error(p) \o <<"\n">> \o p.Trace

(* func (p *Panic) String() string *)
String(p) == Error(p) \o <<"\n", "\n">> \o p.Trace

(* The message of an error value, as assert.EqualError reads it. *)
ErrorText(e, recs) == IF e.t = "Panic" THEN Error(recs[e.id]) ELSE Fmt(e)

----------------------------------------------------------------------------
(* runtime.Stack(buf, true): the calling goroutine first, then every other  *)
(* live goroutine, one line per frame, innermost first.                    *)

UnitSeq == <<"A", "B">>

KindChar(k) == CASE k = "Bare" -> "b" [] k = "Recover" -> "r"
                 [] k = "Forward" -> "f" [] k = "Go" -> "g"

RECURSIVE FrameLines(_, _)
FrameLines(fs, i) ==
    IF i = 0 THEN <<>> ELSE <<KindChar(fs[i].kind), "\n">> \o FrameLines(fs, i - 1)

GoroutineText(w, fs) == <<"g", w, ":", "\n">> \o FrameLines(fs, Len(fs))

RECURSIVE OthersText(_, _, _, _)
OthersText(u, i, stk, st) ==
    IF i > Len(UnitSeq) THEN <<>>
    ELSE (IF UnitSeq[i] # u /\ st[UnitSeq[i]] = "running"
          THEN GoroutineText(UnitSeq[i], stk[UnitSeq[i]]) ELSE <<>>)
         \o OthersText(u, i + 1, stk, st)

StackDump(u, stk, st) == GoroutineText(u, stk[u]) \o OthersText(u, 1, stk, st)

(* func New(v interface{}) *Panic, called in unit u when time.Now() reads  *)
(* now.                                                                    *)
New(v, u, now) ==
    LET dump == StackDump(u, stack, status)
        n == Min(Len(dump), TraceBuf)
    IN  [Time |-> now, Value |-> v, Trace |-> SubSeq(dump, 1, n)]

(* A New whose Trace would still be the stack buffer: the next call of      *)
(* runtime.Stack would show through every record built before.              *)
AllocAliased(recs, p) ==
    Append([i \in DOMAIN recs |-> [recs[i] EXCEPT !.Trace = p.Trace]], p)

(* `p := &Panic{...}`: a new object, its Trace a copy of the buffer; the    *)
(* records built before are not touched.                                    *)
Alloc(recs, p) == Append(recs, p)

----------------------------------------------------------------------------
(* Frames *)

Units == {UnitSeq[i] : i \in 1..Len(UnitSeq)}

Kinds == {"Bare", "Recover", "Forward"}
Args(kind) == CASE kind = "Bare" -> {"none"}
                [] kind = "Recover" -> {"nil", "ok", "panics"}
                [] kind = "Forward" -> {"nil", "slot"}

NoCall == [t |-> "none"]
Returned(v) == [t |-> "ret", value |-> v]
Panicked(v) == [t |-> "panic", value |-> v]

(* How a call ended, as its caller keeps it: out is Returned(r) or          *)
(* Panicked(v), f the frame that ended.                                    *)
Outcome(out, f) ==
    [t |-> out.t, value |-> out.value, kind |-> f.kind, arg |-> f.arg,
     fault |-> f.fault, slot0 |-> f.slot0]

(* A frame on entry.  slot is the function's named result err; ph is the    *)
(* position in the function; the other fields record what happened in it:  *)
(* fn the outcome of the call it made, fault the panic its body ended with  *)
(* (NoPanic when it returned), slot0 the slot when its body ended, seen     *)
(* whether recover was called with a panic in flight, hcalls the records    *)
(* its handler was called with, made the records its deferred call built.   *)
Frame(kind, arg) ==
    [kind |-> kind, arg |-> arg, slot |-> Nil, ph |-> "run", called |-> FALSE,
     fn |-> NoCall, fault |-> NoPanic, slot0 |-> Nil, seen |-> FALSE,
     hcalls |-> <<>>, made |-> <<>>]

Top(u) == stack[u][Len(stack[u])]
Pop(s) == SubSeq(s, 1, Len(s) - 1)
SetTop(s, f) == [s EXCEPT ![Len(s)] = f]

Alive == \A w \in Units : status[w] # "crashed"
InBody(u) == /\ Alive
             /\ status[u] = "running"
             /\ stack[u] # <<>>
             /\ Top(u).ph = "run"
             /\ Top(u).kind # "Go"
AtDefer(u) == /\ Alive
              /\ status[u] = "running"
              /\ stack[u] # <<>>
              /\ Top(u).ph \in {"exit", "unwind"}
Leaving(u) == /\ Alive
              /\ status[u] = "running"
              /\ stack[u] # <<>>
              /\ \/ Top(u).ph = "ran"
                 \/ Top(u).kind = "Bare" /\ Top(u).ph \in {"exit", "unwind"}
CanCall(u) == /\ Alive
              /\ flight[u] = NoPanic
              /\ \/ status[u] = "idle"
                 \/ /\ status[u] = "running"
                    /\ stack[u] # <<>>
                    /\ Top(u).ph = "run"
                    /\ ~Top(u).called
Push(u, f) ==
    IF stack[u] = <<>> THEN <<f>>
    ELSE Append(SetTop(stack[u], [Top(u) EXCEPT !.called = TRUE]), f)

----------------------------------------------------------------------------
(* Init: no unit has started, nothing has been recorded. *)
Init ==
    /\ stack = [u \in Units |-> <<>>]
    /\ flight = [u \in Units |-> NoPanic]
    /\ status = [u \in Units |-> "idle"]
    /\ result = [u \in Units |-> NoCall]
    /\ last = [u \in Units |-> NoCall]
    /\ records = <<>>
    /\ clock = 0
    /\ panicnil \in BOOLEAN
    /\ plan = [u \in Units |->
                  IF u = "A" THEN [depth |-> MaxDepth, kinds |-> Kinds]
                  ELSE [depth |-> 0, kinds |-> {}]]

(* Two goroutines: A's functions defer Recover or Forward, B runs one       *)
(* function that defers nothing.                                           *)
InitConc ==
    /\ stack = [u \in Units |-> <<>>]
    /\ flight = [u \in Units |-> NoPanic]
    /\ status = [u \in Units |-> "idle"]
    /\ result = [u \in Units |-> NoCall]
    /\ last = [u \in Units |-> NoCall]
    /\ records = <<>>
    /\ clock = 0
    /\ panicnil \in BOOLEAN
    /\ plan = [u \in Units |->
                  IF u = "A" THEN [depth |-> MaxDepth - 1, kinds |-> Kinds \ {"Bare"}]
                  ELSE [depth |-> 1, kinds |-> {"Bare"}]]

(* A function that opens a protected section is entered: its defer          *)
(* statement registers Recover(handler) or Forward(errPtr), or nothing.    *)
Enter(u, kind, arg) ==
    /\ CanCall(u)
    /\ kind \in plan[u].kinds
    /\ Len(stack[u]) < plan[u].depth
    /\ stack' = [stack EXCEPT ![u] = Push(u, Frame(kind, arg))]
    /\ status' = [status EXCEPT ![u] = "running"]
    /\ UNCHANGED <<flight, result, last, records, clock, panicnil, plan>>

(* func Go(fn): `defer Forward(&err)`; the call of fn is the next Enter. *)
Go(u) ==
    /\ CanCall(u)
    /\ "Forward" \in plan[u].kinds
    /\ Len(stack[u]) + 1 < plan[u].depth
    /\ stack' = [stack EXCEPT ![u] = Push(u, Frame("Go", "slot"))]
    /\ status' = [status EXCEPT ![u] = "running"]
    /\ UNCHANGED <<flight, result, last, records, clock, panicnil, plan>>

(* The protected code assigns its named result: err = e. *)
Assign(u, e) ==
    /\ InBody(u)
    /\ stack' = [stack EXCEPT ![u] = SetTop(@, [Top(u) EXCEPT !.slot = e])]
    /\ UNCHANGED <<flight, status, result, last, records, clock, panicnil, plan>>

(* The protected code executes `return r`: the result is set, then the      *)
(* deferred call runs.                                                     *)
Return(u, r) ==
    /\ InBody(u)
    /\ stack' = [stack EXCEPT ![u] =
                    SetTop(@, [Top(u) EXCEPT !.slot = r, !.slot0 = r, !.ph = "exit"])]
    /\ UNCHANGED <<flight, status, result, last, records, clock, panicnil, plan>>

(* The protected code executes panic(v). *)
Panic(u, v) ==
    /\ InBody(u)
    /\ LET fl == Panicking(PanicArg(v, panicnil))
       IN  /\ flight' = [flight EXCEPT ![u] = fl]
           /\ stack' = [stack EXCEPT ![u] =
                           SetTop(@, [Top(u) EXCEPT !.ph = "unwind", !.fault = fl,
                                                    !.slot0 = Top(u).slot])]
    /\ UNCHANGED <<status, result, last, records, clock, panicnil, plan>>

(* Forward without its nil-pointer guard. *)
ForwardSkipsNever(errPtr) == FALSE

(* Forward: `if errPtr == nil { return }` *)
ForwardSkips(errPtr) == errPtr = "nil"

(* Forward without `*errPtr == nil`: it stores over an error. *)
ForwardStoresOverError(value, cur) == value # Nil

(* Forward without `value != nil`: it stores when nothing was recovered. *)
ForwardStoresUnasked(value, cur) == cur = Nil

(* Forward: `if value != nil { if *errPtr == nil { *errPtr = New(value) } }` *)
ForwardStores(value, cur) == value # Nil /\ cur = Nil

(* func Forward(errPtr *error), running as the deferred call of the top     *)
(* frame of u (a Forward frame or Go).                                     *)
Forward(u, now) ==
    /\ AtDefer(u)
    /\ Top(u).kind \in {"Forward", "Go"}
    /\ LET f == [Top(u) EXCEPT !.ph = "ran"]
           value == RecoverValue(flight[u])
           id == Len(records) + 1
       IN  IF ForwardSkips(f.arg)
           THEN /\ stack' = [stack EXCEPT ![u] = SetTop(@, f)]
                /\ UNCHANGED <<flight, records, clock>>
           ELSE /\ flight' = [flight EXCEPT ![u] = NoPanic]
                /\ IF ForwardStores(value, f.slot)
                   THEN /\ records' = Alloc(records, New(value, u, now))
                        /\ clock' = now
                        /\ stack' = [stack EXCEPT ![u] = SetTop(@,
                              [f EXCEPT !.slot = Ref(id), !.made = Append(@, id),
                                        !.seen = flight[u] # NoPanic])]
                   ELSE /\ UNCHANGED <<records, clock>>
                        /\ stack' = [stack EXCEPT ![u] = SetTop(@,
                              [f EXCEPT !.seen = flight[u] # NoPanic])]
    /\ UNCHANGED <<status, result, last, panicnil, plan>>

(* Recover without its nil-handler guard. *)
RecoverSkipsNever(handler) == FALSE

(* Recover: `if handler == nil { return }` *)
RecoverSkips(handler) == handler = "nil"

(* Recover without `value != nil`: it calls the handler on every exit. *)
RecoverCallsAlways(value) == TRUE

(* Recover: `if value := recover(); value != nil { handler(New(value)) }` *)
RecoverCalls(value) == value # Nil

(* A Recover that would stop the panic of its own handler. *)
HandlerFlightCaught(handler, pn) == NoPanic

(* What calling the handler does to the unit: it returns, or it panics. *)
HandlerFlight(handler, pn) ==
    CASE handler = "ok" -> NoPanic
      [] handler = "panics" -> Panicking(PanicArg(HandlerPayload, pn))
      [] handler = "nil" -> Panicking(NilDeref)

(* func Recover(handler Handler), running as the deferred call of the top   *)
(* frame of u.                                                             *)
Recover(u, now) ==
    /\ AtDefer(u)
    /\ Top(u).kind = "Recover"
    /\ LET f == [Top(u) EXCEPT !.ph = "ran"]
           value == RecoverValue(flight[u])
           id == Len(records) + 1
       IN  IF RecoverSkips(f.arg)
           THEN /\ stack' = [stack EXCEPT ![u] = SetTop(@, f)]
                /\ UNCHANGED <<flight, records, clock>>
           ELSE IF RecoverCalls(value)
                THEN /\ records' = Alloc(records, New(value, u, now))
                     /\ clock' = now
                     /\ flight' = [flight EXCEPT ![u] = HandlerFlight(f.arg, panicnil)]
                     /\ stack' = [stack EXCEPT ![u] = SetTop(@,
                           [f EXCEPT !.made = Append(@, id), !.hcalls = Append(@, id),
                                     !.seen = flight[u] # NoPanic])]
                ELSE /\ UNCHANGED <<records, clock>>
                     /\ flight' = [flight EXCEPT ![u] = NoPanic]
                     /\ stack' = [stack EXCEPT ![u] = SetTop(@,
                           [f EXCEPT !.seen = flight[u] # NoPanic])]
    /\ UNCHANGED <<status, result, last, panicnil, plan>>

(* What the caller's frame becomes when the call it made returns r: Go's    *)
(* `return fn()` stores r in err and goes on to its deferred Forward; any   *)
(* other caller (`_ = fn()`) drops r and goes on.                           *)
AfterReturn(c, f) ==
    LET r == f.slot
    IN  IF c.kind = "Go"
        THEN [c EXCEPT !.fn = Outcome(Returned(r), f), !.slot = r, !.slot0 = r,
                       !.ph = "exit"]
        ELSE [c EXCEPT !.fn = Outcome(Returned(r), f)]

(* What the caller's frame becomes when the call it made panics. *)
AfterPanic(c, f, fl) ==
    [c EXCEPT !.fn = Outcome(Panicked(fl.value), f), !.ph = "unwind", !.fault = fl,
              !.slot0 = c.slot]

(* The top frame returns to its caller: its deferred call is over and no    *)
(* panic is in flight.                                                     *)
FrameReturn(u) ==
    /\ Leaving(u)
    /\ flight[u] = NoPanic
    /\ LET f == Top(u)
           rest == Pop(stack[u])
       IN  /\ last' = [last EXCEPT ![u] =
                          [t |-> "left", frame |-> f, depth |-> Len(stack[u]),
                           out |-> Returned(f.slot)]]
           /\ IF rest = <<>>
              THEN /\ stack' = [stack EXCEPT ![u] = rest]
                   /\ status' = [status EXCEPT ![u] = "done"]
                   /\ result' = [result EXCEPT ![u] = Returned(f.slot)]
              ELSE /\ stack' = [stack EXCEPT ![u] =
                                   SetTop(rest, AfterReturn(rest[Len(rest)], f))]
                   /\ UNCHANGED <<status, result>>
    /\ UNCHANGED <<flight, records, clock, panicnil, plan>>

(* The panic in flight leaves the top frame, whose deferred call is over,   *)
(* and goes on in the caller; out of the outermost frame it ends the        *)
(* process.                                                                *)
Propagate(u) ==
    /\ Leaving(u)
    /\ flight[u] # NoPanic
    /\ LET f == Top(u)
           rest == Pop(stack[u])
       IN  /\ last' = [last EXCEPT ![u] =
                          [t |-> "left", frame |-> f, depth |-> Len(stack[u]),
                           out |-> Panicked(flight[u].value)]]
           /\ IF rest = <<>>
              THEN /\ stack' = [stack EXCEPT ![u] = rest]
                   /\ status' = [status EXCEPT ![u] = "crashed"]
                   /\ result' = [result EXCEPT ![u] = Panicked(flight[u].value)]
              ELSE /\ stack' = [stack EXCEPT ![u] =
                                   SetTop(rest, AfterPanic(rest[Len(rest)], f, flight[u]))]
                   /\ UNCHANGED <<status, result>>
    /\ UNCHANGED <<flight, records, clock, panicnil, plan>>

Next ==
    \/ \E u \in Units : \E kind \in Kinds : \E arg \in Args(kind) : Enter(u, kind, arg)
    \/ \E u \in Units : Go(u)
    \/ \E u \in Units : \E e \in Assigned : Assign(u, e)
    \/ \E u \in Units : \E r \in Errors \cup {Nil} : Return(u, r)
    \/ \E u \in Units : \E v \in Payloads : Panic(u, v)
    \/ \E u \in Units : \E now \in clock..MaxTime : Forward(u, now)
    \/ \E u \in Units : \E now \in clock..MaxTime : Recover(u, now)
    \/ \E u \in Units : FrameReturn(u)
    \/ \E u \in Units : Propagate(u)

Spec == Init /\ [][Next]_vars

(* A goroutine that can take a step takes one: the scheduler runs every     *)
(* runnable goroutine, Recover, Forward and New never block, and the        *)
(* protected code returns or panics.                                       *)
SpecFair == Init /\ [][Next]_vars /\ WF_vars(Next)

(* The steps of goroutines that call Recover and Forward themselves. *)
NextConc ==
    \/ \E u \in Units : \E kind \in Kinds : \E arg \in Args(kind) : Enter(u, kind, arg)
    \/ \E u \in Units : \E e \in Assigned : Assign(u, e)
    \/ \E u \in Units : \E r \in Errors \cup {Nil} : Return(u, r)
    \/ \E u \in Units : \E v \in Payloads : Panic(u, v)
    \/ \E u \in Units : \E now \in clock..MaxTime : Forward(u, now)
    \/ \E u \in Units : \E now \in clock..MaxTime : Recover(u, now)
    \/ \E u \in Units : FrameReturn(u)
    \/ \E u \in Units : Propagate(u)

(* Two goroutines, interleaved in any order. *)
SpecConc == InitConc /\ [][NextConc]_vars

----------------------------------------------------------------------------
(* Properties *)

Left(u) == last[u].t = "left"
TopRan(u) == status[u] = "running" /\ stack[u] # <<>> /\ Top(u).ph = "ran"
LeftGo(u) == Left(u) /\ last[u].frame.kind = "Go"

(* The frame is a Forward (or Go) frame with a present slot. *)
ForwardSlot(f) == f.kind \in {"Forward", "Go"} /\ f.arg = "slot"
(* The frame is a Forward frame with a nil slot pointer whose body panicked. *)
ForwardNilFault(f) == f.kind = "Forward" /\ f.arg = "nil" /\ f.fault # NoPanic
(* The frame is a Recover frame with a nil handler whose body panicked. *)
RecoverNilFault(f) == f.kind = "Recover" /\ f.arg = "nil" /\ f.fault # NoPanic
(* The frame is a Recover frame with a handler. *)
RecoverHandler(f) == f.kind = "Recover" /\ f.arg \in {"ok", "panics"}

(* C1: when fn returns without a panic leaving it, Go returns exactly the    *)
(* error value fn returned, nil included.                                  *)
C1_GoReturnsFnError ==
    \A u \in Units :
        (LeftGo(u) /\ last[u].frame.fn.t = "ret")
            => last[u].out = Returned(last[u].frame.fn.value)

C1_Witness ==
    \E u \in Units :
        /\ LeftGo(u)
        /\ last[u].frame.fn.t = "ret"
        /\ last[u].frame.fn.value = ErrX
        /\ result[u] = Returned(ErrX)

(* C2: when fn panics with payload v and Go's slot is empty, Go returns a    *)
(* *Panic whose Value is v and whose Error() is "panic: " followed by the   *)
(* string form of v.                                                       *)
C2_GoFaultGivesPanic ==
    \A u \in Units :
        (LeftGo(u) /\ last[u].frame.fn.t = "panic" /\ last[u].frame.slot0 = Nil)
            => /\ last[u].out.t = "ret"
               /\ last[u].out.value.t = "Panic"
               /\ records[last[u].out.value.id].Value = last[u].frame.fn.value
               /\ Error(records[last[u].out.value.id])
                      = <<"p", "a", "n", "i", "c", ":", " ">>
                            \o Fmt(last[u].frame.fn.value)

(* C3, as stated: when fn assigns a non-nil error to its result and then     *)
(* panics, Go returns that error, not a *Panic.                             *)
C3_AssignedErrorWins ==
    \A u \in Units :
        (LeftGo(u) /\ last[u].frame.fn.fault # NoPanic /\ last[u].frame.fn.slot0 # Nil)
            => last[u].out = Returned(last[u].frame.fn.slot0)

(* C3, amended: when fn has Forward installed on its own result, assigns a   *)
(* non-nil error to it and then panics, Go returns that error, not a        *)
(* *Panic.                                                                 *)
C3_AssignedErrorWinsUnderForward ==
    \A u \in Units :
        (/\ LeftGo(u)
         /\ last[u].frame.fn.kind = "Forward"
         /\ last[u].frame.fn.arg = "slot"
         /\ last[u].frame.fn.fault # NoPanic
         /\ last[u].frame.fn.slot0 # Nil)
            => /\ last[u].out = Returned(last[u].frame.fn.slot0)
               /\ last[u].out.value.t # "Panic"

C3_Witness ==
    \E u \in Units :
        /\ LeftGo(u)
        /\ last[u].frame.fn.kind = "Forward"
        /\ last[u].frame.fn.arg = "slot"
        /\ last[u].frame.fn.fault = Panicking(Str(<<"x">>))
        /\ last[u].frame.fn.slot0 = ErrTest
        /\ ErrorText(last[u].out.value, records) = <<"t", "e", "s", "t">>

(* C4: when Forward has a slot that holds an error and a panic is in flight, *)
(* the slot is the same after Forward as before, and the panic is over: the *)
(* frame returns to its caller.                                            *)
C4_ForwardKeepsError ==
    \A u \in Units :
        /\ (/\ TopRan(u)
            /\ ForwardSlot(Top(u))
            /\ Top(u).fault # NoPanic
            /\ Top(u).slot0 # Nil)
               => /\ Top(u).slot = Top(u).slot0
                  /\ flight[u] = NoPanic
        /\ (/\ Left(u)
            /\ ForwardSlot(last[u].frame)
            /\ last[u].frame.fault # NoPanic
            /\ last[u].frame.slot0 # Nil)
               => last[u].out = Returned(last[u].frame.slot0)

C4_Witness ==
    \E u \in Units :
        /\ TopRan(u)
        /\ ForwardSlot(Top(u))
        /\ Top(u).fault # NoPanic
        /\ Top(u).slot0 = ErrTest
        /\ Top(u).seen

(* C5: Forward(nil) under a panic with payload v intercepts nothing: no      *)
(* recover, no record, the slot untouched, the panic still in flight with   *)
(* payload v when the frame is left, and v is what the caller unwinds with  *)
(* or, out of the outermost frame, what ends the unit.                      *)
C5_ForwardNilPropagates ==
    \A u \in Units :
        /\ (TopRan(u) /\ ForwardNilFault(Top(u)))
               => /\ flight[u] = Top(u).fault
                  /\ ~Top(u).seen
                  /\ Top(u).made = <<>>
                  /\ Top(u).slot = Top(u).slot0
        /\ (Left(u) /\ ForwardNilFault(last[u].frame))
               => /\ last[u].out = Panicked(last[u].frame.fault.value)
                  /\ last[u].frame.made = <<>>
                  /\ last[u].depth = 1 =>
                        /\ status[u] = "crashed"
                        /\ result[u] = Panicked(last[u].frame.fault.value)
        /\ \A i \in DOMAIN stack[u] :
               (stack[u][i].fn.t # "none" /\ ForwardNilFault(stack[u][i].fn))
                   => /\ stack[u][i].fn.t = "panic"
                      /\ stack[u][i].fn.value = stack[u][i].fn.fault.value
                      /\ stack[u][i].fault = stack[u][i].fn.fault

C5_Witness ==
    \E u \in Units :
        /\ Left(u)
        /\ ForwardNilFault(last[u].frame)
        /\ last[u].frame.fault = Panicking(Str(<<"x">>))
        /\ status[u] = "crashed"
        /\ result[u] = Panicked(Str(<<"x">>))

(* C6: Recover(nil) under a panic with payload v intercepts nothing: no      *)
(* recover, no record, no handler call, the panic still in flight with      *)
(* payload v when the frame is left, and v is what the caller unwinds with  *)
(* or, out of the outermost frame, what ends the unit.                      *)
C6_RecoverNilPropagates ==
    \A u \in Units :
        /\ (TopRan(u) /\ RecoverNilFault(Top(u)))
               => /\ flight[u] = Top(u).fault
                  /\ ~Top(u).seen
                  /\ Top(u).made = <<>>
                  /\ Top(u).hcalls = <<>>
        /\ (Left(u) /\ RecoverNilFault(last[u].frame))
               => /\ last[u].out = Panicked(last[u].frame.fault.value)
                  /\ last[u].frame.made = <<>>
                  /\ last[u].frame.hcalls = <<>>
                  /\ last[u].depth = 1 =>
                        /\ status[u] = "crashed"
                        /\ result[u] = Panicked(last[u].frame.fault.value)
        /\ \A i \in DOMAIN stack[u] :
               (stack[u][i].fn.t # "none" /\ RecoverNilFault(stack[u][i].fn))
                   => /\ stack[u][i].fn.t = "panic"
                      /\ stack[u][i].fn.value = stack[u][i].fn.fault.value
                      /\ stack[u][i].fault = stack[u][i].fn.fault

C6_Witness ==
    \E u \in Units :
        /\ Left(u)
        /\ RecoverNilFault(last[u].frame)
        /\ last[u].frame.fault = Panicking(ErrX)
        /\ status[u] = "crashed"
        /\ result[u] = Panicked(ErrX)

(* C7: when Recover has a handler and the body panics with payload v, then   *)
(* once Recover is over and before the frame is left the handler has been   *)
(* called exactly once, with a record whose Value is v, and if the handler  *)
(* returned no panic is in flight.                                         *)
C7_HandlerCalledOnce ==
    \A u \in Units :
        (TopRan(u) /\ RecoverHandler(Top(u)) /\ Top(u).fault # NoPanic)
            => /\ Len(Top(u).hcalls) = 1
               /\ records[Top(u).hcalls[1]].Value = Top(u).fault.value
               /\ Top(u).arg = "ok" => flight[u] = NoPanic

(* C8: no panic leaves Go, and when fn panicked Go returns a non-nil error. *)
C8_GoRecoversAnyPanic ==
    \A u \in Units :
        LeftGo(u)
            => /\ last[u].out.t = "ret"
               /\ last[u].frame.fn.t = "panic" => last[u].out.value # Nil

(* C9: when Forward has a slot and runs with no panic in flight, it leaves   *)
(* the slot as it is, builds no record, and the frame goes on returning.    *)
C9_ForwardNoFaultNoEffect ==
    [][\A u \in Units :
          (/\ AtDefer(u)
           /\ ForwardSlot(Top(u))
           /\ flight[u] = NoPanic
           /\ stack'[u] # stack[u])
              => /\ records' = records
                 /\ Len(stack'[u]) = Len(stack[u])
                 /\ stack'[u][Len(stack[u])].slot = Top(u).slot
                 /\ stack'[u][Len(stack[u])].ph = "ran"
                 /\ flight'[u] = NoPanic]_vars

C9_Witness ==
    \E u \in Units :
        /\ TopRan(u)
        /\ Top(u).kind = "Forward"
        /\ Top(u).arg = "slot"
        /\ Top(u).fault = NoPanic
        /\ Top(u).slot = ErrTest

(* C10: a Recover frame with a handler whose body ended without a panic      *)
(* never has its handler called.                                           *)
C10_NoFaultNoHandlerCall ==
    \A u \in Units :
        /\ \A i \in DOMAIN stack[u] :
               (RecoverHandler(stack[u][i]) /\ stack[u][i].fault = NoPanic)
                   => stack[u][i].hcalls = <<>> /\ stack[u][i].made = <<>>
        /\ (Left(u) /\ RecoverHandler(last[u].frame) /\ last[u].frame.fault = NoPanic)
               => /\ last[u].frame.hcalls = <<>>
                  /\ last[u].frame.made = <<>>
                  /\ last[u].out.t = "ret"

C10_Witness ==
    \E u \in Units :
        /\ Left(u)
        /\ RecoverHandler(last[u].frame)
        /\ last[u].frame.fault = NoPanic
        /\ last[u].frame.ph = "ran"
        /\ status[u] = "done"

(* The frames of unit u: those on its stack and the one it left last. *)
FramesOf(u) ==
    {stack[u][i] : i \in DOMAIN stack[u]} \cup (IF Left(u) THEN {last[u].frame} ELSE {})

(* The frame's deferred call recovered something, built a record, called a   *)
(* handler or stored a record in the slot.                                 *)
Touched(f) == f.seen \/ f.made # <<>> \/ f.hcalls # <<>> \/ f.slot.t = "Panic"

(* C11: a frame's Recover or Forward acts only on a panic of its own unit:   *)
(* whatever it recovers, builds, hands to the handler or stores comes from  *)
(* the panic its own body ended with; and the panic of a unit that defers   *)
(* nothing stays in flight in that unit until it ends the unit.             *)
C11_PerUnitInterception ==
    \A u \in Units :
        /\ \A f \in FramesOf(u) :
               Touched(f)
                   => /\ f.fault # NoPanic
                      /\ \A i \in DOMAIN f.made : records[f.made[i]].Value = f.fault.value
                      /\ \A i \in DOMAIN f.hcalls : records[f.hcalls[i]].Value = f.fault.value
                      /\ f.slot.t = "Panic" => records[f.slot.id].Value = f.fault.value
        /\ \A f \in FramesOf(u) :
               (f.kind = "Bare" /\ f.fault # NoPanic)
                   => /\ flight[u] = f.fault
                      /\ Left(u) => /\ status[u] = "crashed"
                                    /\ result[u] = Panicked(f.fault.value)

C11_Witness ==
    /\ flight["B"] = Panicking(Str(<<"x">>))
    /\ status["B"] = "running"
    /\ TopRan("A")
    /\ ForwardSlot(Top("A"))
    /\ Top("A").fault = NoPanic
    /\ Top("A").slot = Nil
    /\ ~Top("A").seen

(* C12: for every record, String() is Error(), then two newlines, then the   *)
(* record's Trace; Error() is "panic: " and the string form of Value and is *)
(* a strict prefix of String(); the Trace is not empty (the capturing unit  *)
(* itself was running).                                                    *)
C12_StringIsErrorBlankLineTrace ==
    \A i \in DOMAIN records :
        LET e == Error(records[i])
            s == String(records[i])
        IN  /\ Len(s) = Len(e) + 2 + Len(records[i].Trace)
            /\ Len(e) < Len(s)
            /\ SubSeq(s, 1, Len(e)) = e
            /\ s[Len(e) + 1] = "\n"
            /\ s[Len(e) + 2] = "\n"
            /\ SubSeq(s, Len(e) + 3, Len(s)) = records[i].Trace
            /\ records[i].Trace # <<>>
            /\ SubSeq(e, 1, 7) = <<"p", "a", "n", "i", "c", ":", " ">>
            /\ SubSeq(e, 8, Len(e)) = Fmt(records[i].Value)

C12_Witness ==
    \E i \in DOMAIN records :
        /\ records[i].Value = Str(<<"x">>)
        /\ String(records[i]) = <<"p", "a", "n", "i", "c", ":", " ", "x", "\n", "\n",
                                  "g", "A", ":", "\n", "f", "\n">>

(* The frames of unit u whose deferred Recover or Forward is over. *)
RanOf(u) == {f \in FramesOf(u) : f.ph = "ran"}

(* The frame's deferred call had a handler or a slot and intercepted a       *)
(* panic.                                                                  *)
Intercepted(f) == (RecoverHandler(f) \/ ForwardSlot(f)) /\ f.seen

HandlerFaulted(f) == f.kind = "Recover" /\ f.arg = "panics" /\ f.hcalls # <<>>

(* C14: when the handler panics while handling an intercepted panic, the     *)
(* handler has been called once only, its panic is in flight when Recover   *)
(* is over, and it leaves the frame: the caller unwinds with it or, out of  *)
(* the outermost frame, it ends the unit.                                   *)
C14_HandlerFaultPropagates ==
    \A u \in Units :
        /\ (TopRan(u) /\ HandlerFaulted(Top(u)))
               => /\ Len(Top(u).hcalls) = 1
                  /\ flight[u] = Panicking(HandlerPayload)
        /\ (Left(u) /\ HandlerFaulted(last[u].frame))
               => /\ Len(last[u].frame.hcalls) = 1
                  /\ last[u].out = Panicked(HandlerPayload)
                  /\ last[u].depth = 1 =>
                        /\ status[u] = "crashed"
                        /\ result[u] = Panicked(HandlerPayload)
        /\ \A i \in DOMAIN stack[u] :
               (/\ stack[u][i].fn.t # "none"
                /\ stack[u][i].fn.kind = "Recover"
                /\ stack[u][i].fn.arg = "panics"
                /\ stack[u][i].fn.fault # NoPanic
                /\ stack[u][i].fn.fault.value # Nil)
                   => /\ stack[u][i].fn.t = "panic"
                      /\ stack[u][i].fn.value = HandlerPayload
                      /\ stack[u][i].fault = Panicking(HandlerPayload)

C14_Witness ==
    \E u \in Units :
        /\ Left(u)
        /\ HandlerFaulted(last[u].frame)
        /\ last[u].frame.fault = Panicking(ErrX)
        /\ status[u] = "crashed"
        /\ result[u] = Panicked(HandlerPayload)

(* A section's positions: "run" is Protected-Section-Running, "unwind" a     *)
(* panic at the interception point, "ran" the deferred call over            *)
(* (Discipline-Applied when it intercepted), and the frame leaving the      *)
(* stack is Resolved.                                                      *)
PhaseStep(a, b) ==
    \/ a = b
    \/ a = "run" /\ b \in {"exit", "unwind"}
    \/ a \in {"exit", "unwind"} /\ b = "ran"

(* One step of unit u keeps to the state machine. *)
SectionStep(u) ==
    /\ \A i \in DOMAIN stack[u] :
           IF i \in DOMAIN stack'[u]
           THEN /\ stack'[u][i].kind = stack[u][i].kind
                /\ stack'[u][i].arg = stack[u][i].arg
                /\ PhaseStep(stack[u][i].ph, stack'[u][i].ph)
                /\ (stack'[u][i].seen /\ ~stack[u][i].seen)
                       => stack[u][i].ph = "unwind" /\ stack'[u][i].ph = "ran"
                /\ (stack'[u][i].made # stack[u][i].made
                        \/ stack'[u][i].hcalls # stack[u][i].hcalls)
                       => stack'[u][i].seen /\ ~stack[u][i].seen
                /\ stack[u][i].seen => stack'[u][i] = stack[u][i]
           ELSE /\ i = Len(stack[u])
                /\ Len(stack'[u]) = i - 1
                /\ \/ stack[u][i].ph = "ran"
                   \/ (stack[u][i].kind = "Bare" /\ stack[u][i].ph \in {"exit", "unwind"})
                /\ last'[u].frame = stack[u][i]
    /\ \A i \in DOMAIN stack'[u] \ DOMAIN stack[u] :
           /\ i = Len(stack[u]) + 1
           /\ stack'[u][i].ph = "run"
           /\ (stack[u] = <<>> \/ Top(u).ph = "run")
           /\ status[u] \in {"idle", "running"}
    /\ status[u] \in {"done", "crashed"}
           => (stack'[u] = <<>> /\ status'[u] = status[u] /\ result'[u] = result[u])

(* C15: every section goes Running, then either straight to Resolved or      *)
(* through a panic, its interception and the discipline to Resolved, never  *)
(* back; no section is entered from a deferred call or after its unit has   *)
(* ended; and in the end every section that was entered has been left.      *)
C15_SectionStateMachine ==
    /\ [][\A u \in Units : SectionStep(u)]_vars
    /\ <>[](\A u \in Units : stack[u] = <<>>)

C15_Witness ==
    \E u \in Units :
        /\ status[u] = "done"
        /\ stack[u] = <<>>
        /\ last[u].depth = 1
        /\ last[u].frame.kind = "Go"
        /\ last[u].frame.seen
        /\ last[u].frame.made # <<>>

(* C16: while a panic out of fn is at Go's deferred Forward, Go's err is     *)
(* still nil (only a normal return of fn writes it), and so Go returns a    *)
(* *Panic for that panic whatever error fn assigned to its own result       *)
(* before panicking.                                                       *)
C16_GoSlotEmptyOnFault ==
    \A u \in Units :
        /\ \A i \in DOMAIN stack[u] :
               (stack[u][i].kind = "Go" /\ stack[u][i].fn.t = "panic")
                   => (stack[u][i].slot0 = Nil
                       /\ (stack[u][i].ph = "unwind" => stack[u][i].slot = Nil))
        /\ (LeftGo(u) /\ last[u].frame.fn.t = "panic")
               => /\ last[u].frame.slot0 = Nil
                  /\ last[u].out.t = "ret"
                  /\ last[u].out.value.t = "Panic"
                  /\ last[u].frame.made = <<last[u].out.value.id>>
                  /\ records[last[u].out.value.id].Value = last[u].frame.fn.value

(* The call the frame made was of a function whose body panicked and whose   *)
(* deferred call had a handler that returns, or a slot.                     *)
CalleeConsumes(c) ==
    /\ c.fn.t # "none"
    /\ c.fn.fault # NoPanic
    /\ \/ c.fn.kind \in {"Forward", "Go"} /\ c.fn.arg = "slot"
       \/ c.fn.kind = "Recover" /\ c.fn.arg = "ok"

(* The call the frame made was of a function whose body panicked and which   *)
(* deferred nothing, Forward(nil) or Recover(nil).                          *)
CalleePasses(c) ==
    /\ c.fn.t # "none"
    /\ c.fn.fault # NoPanic
    /\ \/ c.fn.kind = "Bare"
       \/ c.fn.kind \in {"Forward", "Recover"} /\ c.fn.arg = "nil"

(* C17: a panic is stopped by the innermost frame that defers Recover with   *)
(* a handler or Forward with a slot.  Frames that defer nothing,            *)
(* Forward(nil) or Recover(nil) recover nothing and hand the panic to their *)
(* caller with its payload unchanged; the caller of the frame that stopped  *)
(* it sees the call return: without a panic of its own body it recovers     *)
(* nothing, builds no record and calls no handler.  What a panicking        *)
(* handler sends on is the handler's payload, a panic of its own.           *)
C17_InnermostPresentConsumes ==
    \A u \in Units :
        /\ \A c \in FramesOf(u) :
               /\ CalleePasses(c)
                      => /\ c.fn.t = "panic"
                         /\ c.fn.value = c.fn.fault.value
                         /\ c.fault = c.fn.fault
               /\ CalleeConsumes(c)
                      => /\ c.fn.t = "ret"
                         /\ c.fault = NoPanic
                                => (~c.seen /\ c.made = <<>> /\ c.hcalls = <<>>)
                         /\ c.kind = "Go" => (c.fault = NoPanic /\ c.slot = c.fn.value)
               /\ (c.fn.t = "panic" /\ c.fn.kind = "Recover" /\ c.fn.arg = "panics")
                      => c.fn.value = HandlerPayload
        /\ \A f \in RanOf(u) :
               /\ (f.fault # NoPanic /\ (ForwardSlot(f) \/ RecoverHandler(f))) => f.seen
               /\ (ForwardNilFault(f) \/ RecoverNilFault(f) \/ f.kind = "Bare")
                      => (~f.seen /\ f.made = <<>> /\ f.hcalls = <<>>)
        /\ (TopRan(u) /\ Top(u).fault # NoPanic
                /\ (ForwardSlot(Top(u)) \/ (Top(u).kind = "Recover" /\ Top(u).arg = "ok")))
               => flight[u] = NoPanic

(* The test's inner Forward: fn's own Forward stops the panic and stores     *)
(* the record, Go's Forward sees a normal return and builds nothing.        *)
C17_Witness ==
    \E u \in Units :
        /\ LeftGo(u)
        /\ last[u].frame.fn.kind = "Forward"
        /\ last[u].frame.fn.arg = "slot"
        /\ last[u].frame.fn.fault = Panicking(Str(<<"x">>))
        /\ last[u].frame.fn.t = "ret"
        /\ ~last[u].frame.seen
        /\ last[u].frame.made = <<>>
        /\ last[u].out.value.t = "Panic"
        /\ records[last[u].out.value.id].Value = Str(<<"x">>)

(* C18: a record never changes once New has returned: every step of         *)
(* Recover, Forward and Go and of the protected code leaves each existing   *)
(* record, and so what Error() and String() return for it, as it was; a     *)
(* step adds at most one record, whose Time is the clock reading and whose  *)
(* Trace is the dump of the stacks at that deferred call; no record is      *)
(* dated after the present.                                                *)
C18_RecordsImmutable ==
    /\ [][/\ Len(records) <= Len(records')
          /\ Len(records') <= Len(records) + 1
          /\ \A i \in DOMAIN records :
                 /\ records'[i] = records[i]
                 /\ Error(records'[i]) = Error(records[i])
                 /\ String(records'[i]) = String(records[i])
          /\ \A i \in DOMAIN records' \ DOMAIN records :
                 \E u \in Units :
                     /\ AtDefer(u)
                     /\ stack'[u] # stack[u]
                     /\ records'[i].Time = clock'
                     /\ records'[i].Value = RecoverValue(flight[u])
                     /\ records'[i].Trace =
                            SubSeq(StackDump(u, stack, status), 1,
                                   Min(Len(StackDump(u, stack, status)), TraceBuf))]_vars
    /\ [](\A i \in DOMAIN records : records[i].Time <= clock)

(* A record built earlier, at another time and with another stack than the   *)
(* latest one, inspected after the unit has ended.                          *)
C18_Witness ==
    /\ Len(records) = 2
    /\ records[1].Time < clock
    /\ records[2].Time = clock
    /\ records[1].Trace # records[2].Trace
    /\ \E u \in Units :
           /\ status[u] = "done"
           /\ records[1].Trace # StackDump(u, stack, status)

====
